---- MODULE Spec2Model ----
(***************************************************************************)
(* Model of src/src/device.c: the interrupt path (OnInterruptIsr,          *)
(* SendHidReports) and the PnP/power callbacks (OnPrepareHardware,         *)
(* OnD0Entry, OnD0Exit, OnReleaseHardware) of the touch controller driver. *)
(***************************************************************************)
EXTENDS Integers, Sequences, FiniteSets, TLC

(* ---------------------------------------------------------------------- *)
(* Bounds                                                                  *)
(* ---------------------------------------------------------------------- *)
\* sizeof(HID_INPUT_REPORT), in bytes (abstracted to a small size)
ReportSize == 1
\* largest hidReportsCount TchServiceInterrupts hands back in one pass
MaxReports == 2
\* number of read requests the host submits over a run
MaxRequests == 2
\* number of resource descriptors in a translated resource list
MaxResources == 2
\* number of distinct connection IDs (IdLowPart values)
MaxId == 2

(* ---------------------------------------------------------------------- *)
(* Status codes                                                            *)
(* ---------------------------------------------------------------------- *)
STATUS_SUCCESS == "STATUS_SUCCESS"
STATUS_BUFFER_TOO_SMALL == "STATUS_BUFFER_TOO_SMALL"
STATUS_INSUFFICIENT_RESOURCES == "STATUS_INSUFFICIENT_RESOURCES"
NoOutputBuffer == "NoOutputBuffer"
HardwareFault == "HardwareFault"
TransientBusError == "TransientBusError"
ResourceOpenFailed == "ResourceOpenFailed"
OutOfResources == "OutOfResources"

NT_SUCCESS(status) == status = STATUS_SUCCESS

(* ---------------------------------------------------------------------- *)
(* Data                                                                    *)
(* ---------------------------------------------------------------------- *)
\* a buffer byte nobody wrote
Untouched == <<>>

\* the b-th touch frame as a flat block of ReportSize bytes, every byte of
\* every frame different from the others: byte k of frame b is <<b, k>>
Frame(b) == [k \in 1..ReportSize |-> <<b, k>>]

\* the HID_INPUT_REPORT values the Touch Engine produces
HID_INPUT_REPORT == {Frame(1), Frame(2)}

\* report arrays TchServiceInterrupts can hand back (count 0..MaxReports)
ReportArrays == UNION {[1..n -> HID_INPUT_REPORT] : n \in 0..MaxReports}

\* output buffer lengths a host read request may carry
BufferLengths == {ReportSize - 1, ReportSize, ReportSize + 1}

\* the shapes of a host read request: without an output buffer, or with one
RequestShapes ==
    {[hasBuffer |-> FALSE, length |-> 0]} \cup
    {[hasBuffer |-> TRUE, length |-> l] : l \in BufferLengths}

Min(a, b) == IF a < b THEN a ELSE b

VARIABLES
    \* ---- framework request queue and its observable completions
    PingPongQueue,      \* FIFO of pending read requests
    nextRequestId,      \* id of the next request the host submits
    completed,          \* completions emitted by WdfRequestComplete, in order
    cancelled,          \* ids of requests the host cancelled while pending
    \* ---- OnInterruptIsr / SendHidReports locals
    isrPc,              \* "idle" | "loop"
    hidReportsFromDriver,
    hidReportsCount,
    i,
    isrReturn,          \* return value of the last OnInterruptIsr
    pass,               \* record of the current / last service pass
    \* ---- device context (DEVICE_EXTENSION)
    devContext,
    \* ---- host framework
    hostState,          \* "Unbound" | "Prepared" | "PrepareFailed" | "D0" | "D3"
    cb,                 \* record of the last PnP / power callback
    d0ExitStatus,       \* status of TchStandbyDevice in an OnD0Exit that has
                        \* not returned yet, "none" otherwise
    last                \* name of the last action taken

isrVars == <<PingPongQueue, nextRequestId, completed, cancelled, isrPc,
             hidReportsFromDriver, hidReportsCount, i, isrReturn, pass>>
vars == <<isrVars, devContext, hostState, cb, d0ExitStatus, last>>

NullId == [LowPart |-> 0, HighPart |-> 0]

\* the device context as the framework creates it: zero filled
ZeroedContext ==
    [I2cResHubId |-> NullId,        \* I2CContext.I2cResHubId
     SpbOpen |-> FALSE,             \* I2CContext holds an open bus target
     TouchContext |-> "null",       \* "null" | "valid" | "freed"
     ResetGpioId |-> NullId,
     HasResetGpio |-> FALSE,
     ServiceInterruptsAfterD0Entry |-> FALSE]

\* the device context once OnPrepareHardware and OnD0Entry succeeded on a
\* resource list holding the one Serial/I2C descriptor of connection ID 1
RunningContext ==
    [ZeroedContext EXCEPT !.I2cResHubId = [LowPart |-> 1, HighPart |-> 1 + MaxId],
                          !.SpbOpen = TRUE,
                          !.TouchContext = "valid",
                          !.ServiceInterruptsAfterD0Entry = TRUE]

NoCallback == [name |-> "none", status |-> "none", calls |-> <<>>,
               resources |-> <<>>, before |-> ZeroedContext,
               prevName |-> "none", prevCalls |-> <<>>, cycles |-> 0]

NoPass == [status |-> "none", reports |-> <<>>, queueBefore |-> <<>>,
           completedBefore |-> 0, matches |-> <<>>, dropped |-> <<>>,
           disturbed |-> FALSE]

(* ---------------------------------------------------------------------- *)
(* Report Dispatcher                                                       *)
(* ---------------------------------------------------------------------- *)
\* the output buffer of a request as the host handed it over
FreshBuffer(request) == [k \in 1..request.length |-> Untouched]

\* WdfRequestRetrieveOutputBuffer(request, MinimumRequiredSize, &buf, &len)
WdfRequestRetrieveOutputBuffer(request, MinimumRequiredSize) ==
    IF ~request.hasBuffer
    THEN [status |-> NoOutputBuffer, length |-> 0]
    ELSE IF request.length < MinimumRequiredSize
    THEN [status |-> STATUS_BUFFER_TOO_SMALL, length |-> 0]
    ELSE [status |-> STATUS_SUCCESS, length |-> request.length]

\* RtlCopyMemory(buffer, report, size): the first size bytes of buffer
RtlCopyMemory(buffer, report, size) ==
    [k \in 1..Len(buffer) |-> IF k <= size THEN report[k] ELSE buffer[k]]

\* mutant: the copy and the information are made whatever the buffer checks say
CompleteOneUnchecked(request, report) ==
    LET got == WdfRequestRetrieveOutputBuffer(request, ReportSize)
    IN  [request |-> request,
         status |-> got.status,
         information |-> ReportSize,
         buffer |-> RtlCopyMemory(FreshBuffer(request), report,
                                  Min(ReportSize, request.length))]

\* mutant: the status of the buffer checks is lost, every request succeeds
CompleteOneSuccessAlways(request, report) ==
    LET got == WdfRequestRetrieveOutputBuffer(request, ReportSize)
    IN  [request |-> request,
         status |-> STATUS_SUCCESS,
         information |-> IF NT_SUCCESS(got.status) THEN ReportSize ELSE 0,
         buffer |-> IF NT_SUCCESS(got.status)
                    THEN RtlCopyMemory(FreshBuffer(request), report, ReportSize)
                    ELSE FreshBuffer(request)]

\* one loop body of SendHidReports once a request was retrieved:
\* the completion WdfRequestComplete emits for it
CompleteOne(request, report) ==
    LET got == WdfRequestRetrieveOutputBuffer(request, ReportSize)
    IN  IF ~NT_SUCCESS(got.status)
        THEN [request |-> request, status |-> got.status,
              information |-> 0, buffer |-> FreshBuffer(request)]
        ELSE IF got.length < ReportSize
        THEN [request |-> request, status |-> STATUS_BUFFER_TOO_SMALL,
              information |-> 0, buffer |-> FreshBuffer(request)]
        ELSE [request |-> request, status |-> got.status,
              information |-> ReportSize,
              buffer |-> RtlCopyMemory(FreshBuffer(request), report, ReportSize)]

\* mutant: the loop index is not used, every request gets the first report
ReportAtFirst(reports, idx) == reports[1]

\* &hidReportsFromDriver[i] (C index i, 0-based)
ReportAt(reports, idx) == reports[idx + 1]

\* WdfIoQueueRetrieveNextRequest on a queue that is not empty (FIFO)
WdfIoQueueRetrieveNextRequest(queue) ==
    [request |-> Head(queue), rest |-> Tail(queue)]

\* mutant: a request whose buffer checks failed is never completed
CompleteOnlyOnSuccess(done, completion) ==
    IF NT_SUCCESS(completion.status) THEN Append(done, completion) ELSE done

\* WdfRequestComplete(request, status): one more completion seen by the host
WdfRequestComplete(done, completion) == Append(done, completion)

\* mutant: the failure of TchServiceInterrupts is not acted on
ServiceFailedNever(status) == FALSE

\* if (!NT_SUCCESS(status)) goto exit;  in OnInterruptIsr
ServiceFailed(status) == ~NT_SUCCESS(status)

(* ---------------------------------------------------------------------- *)
(* Touch Engine: service_interrupts                                        *)
(* ---------------------------------------------------------------------- *)
\* outcomes of TchServiceInterrupts: a status and the (reports, count) it left
\* behind; a failing call may have produced reports before it failed
TchServiceInterruptsOutcomes ==
    {[status |-> st, reports |-> rs] :
        st \in {STATUS_SUCCESS, HardwareFault, TransientBusError},
        rs \in ReportArrays}

(* ---------------------------------------------------------------------- *)
(* Host side of the ping-pong queue                                        *)
(* ---------------------------------------------------------------------- *)
InPass == isrPc # "idle"

\* pass record after a host operation on the queue: a pass in progress is
\* marked, the record of a pass that returned is dropped
Disturb == IF InPass THEN [pass EXCEPT !.disturbed = TRUE] ELSE NoPass

\* the host input stack parks one more read request on the queue
HostSubmitRead ==
    /\ nextRequestId <= MaxRequests
    /\ \E shape \in RequestShapes :
          PingPongQueue' = Append(PingPongQueue,
              [id |-> nextRequestId, hasBuffer |-> shape.hasBuffer,
               length |-> shape.length])
    /\ nextRequestId' = nextRequestId + 1
    /\ pass' = Disturb
    /\ last' = "HostSubmitRead"
    /\ UNCHANGED <<completed, cancelled, isrPc, hidReportsFromDriver,
                   hidReportsCount, i, isrReturn, devContext, hostState, cb,
                   d0ExitStatus>>

\* the framework cancels a request that is still pending on the queue
HostCancelRead ==
    /\ \E k \in 1..Len(PingPongQueue) :
          /\ PingPongQueue' = SubSeq(PingPongQueue, 1, k - 1) \o
                              SubSeq(PingPongQueue, k + 1, Len(PingPongQueue))
          /\ cancelled' = cancelled \cup {PingPongQueue[k].id}
    /\ pass' = Disturb
    /\ last' = "HostCancelRead"
    /\ UNCHANGED <<nextRequestId, completed, isrPc, hidReportsFromDriver,
                   hidReportsCount, i, isrReturn, devContext, hostState, cb,
                   d0ExitStatus>>

(* ---------------------------------------------------------------------- *)
(* Interrupt path                                                          *)
(* ---------------------------------------------------------------------- *)
\* OnInterruptIsr up to the call of SendHidReports (or to `exit` on failure)
OnInterruptIsr ==
    /\ isrPc = "idle"
    /\ hostState = "D0"
    /\ \E out \in TchServiceInterruptsOutcomes :
          /\ pass' = [status |-> out.status, reports |-> out.reports,
                      queueBefore |-> PingPongQueue,
                      completedBefore |-> Len(completed),
                      matches |-> <<>>, dropped |-> <<>>,
                      disturbed |-> FALSE]
          /\ IF ServiceFailed(out.status)
             THEN /\ isrPc' = "idle"
                  /\ isrReturn' = "TRUE"
                  /\ UNCHANGED <<hidReportsFromDriver, hidReportsCount, i>>
             ELSE /\ isrPc' = "loop"
                  /\ isrReturn' = "none"
                  /\ hidReportsFromDriver' = out.reports
                  /\ hidReportsCount' = Len(out.reports)
                  /\ i' = 0
    /\ last' = "OnInterruptIsr"
    /\ UNCHANGED <<PingPongQueue, nextRequestId, completed, cancelled,
                   devContext, hostState, cb, d0ExitStatus>>

\* mutant: a report whose request was completed with a failure is offered
\* again to the next request
AfterIterationRetry(idx, status) ==
    IF NT_SUCCESS(status) THEN idx + 1 ELSE idx

\* the loop index after an iteration that completed a request with status:
\* `goto complete` falls into WdfRequestComplete and the for loop's i++
AfterIteration(idx, status) == idx + 1

\* one iteration of the for loop of SendHidReports
SendHidReports ==
    /\ isrPc = "loop"
    /\ i < hidReportsCount
    /\ IF PingPongQueue = <<>>
       THEN \* WdfIoQueueRetrieveNextRequest failed: continue
            /\ pass' = [pass EXCEPT !.dropped = Append(@, i)]
            /\ i' = i + 1
            /\ UNCHANGED <<PingPongQueue, completed>>
       ELSE LET got == WdfIoQueueRetrieveNextRequest(PingPongQueue)
                request == got.request
                done == CompleteOne(request, ReportAt(hidReportsFromDriver, i))
            IN  /\ PingPongQueue' = got.rest
                /\ completed' = WdfRequestComplete(completed, done)
                /\ pass' = [pass EXCEPT
                               !.matches = Append(@, [id |-> request.id,
                                                      index |-> i])]
                /\ i' = AfterIteration(i, done.status)
    /\ last' = "SendHidReports"
    /\ UNCHANGED <<nextRequestId, cancelled, isrPc, hidReportsFromDriver,
                   hidReportsCount, isrReturn, devContext, hostState, cb,
                   d0ExitStatus>>

\* the loop of SendHidReports ends; OnInterruptIsr returns TRUE
OnInterruptIsrReturn ==
    /\ isrPc = "loop"
    /\ ~(i < hidReportsCount)
    /\ isrPc' = "idle"
    /\ isrReturn' = "TRUE"
    /\ hidReportsFromDriver' = <<>>
    /\ hidReportsCount' = 0
    /\ i' = 0
    /\ last' = "OnInterruptIsrReturn"
    /\ UNCHANGED <<PingPongQueue, nextRequestId, completed, cancelled, pass,
                   devContext, hostState, cb, d0ExitStatus>>

(* ---------------------------------------------------------------------- *)
(* Resource descriptors                                                    *)
(* ---------------------------------------------------------------------- *)
CmResourceTypeConnection == "CmResourceTypeConnection"
CmResourceTypeInterrupt == "CmResourceTypeInterrupt"
CM_RESOURCE_CONNECTION_CLASS_GPIO == "CLASS_GPIO"
CM_RESOURCE_CONNECTION_CLASS_SERIAL == "CLASS_SERIAL"
\* connection types are numbered per class: GPIO_IO and SERIAL_SPI share a
\* number, and so do SERIAL_I2C and GPIO_INTERRUPT
CM_RESOURCE_CONNECTION_TYPE_SERIAL_I2C == "type 1"
CM_RESOURCE_CONNECTION_TYPE_GPIO_IO == "type 2"

Descriptor(type, class, connType, id) ==
    [Type |-> type, Class |-> class, ConnType |-> connType,
     IdLowPart |-> id, IdHighPart |-> id + MaxId]

I2cDescriptor(id) ==
    Descriptor(CmResourceTypeConnection, CM_RESOURCE_CONNECTION_CLASS_SERIAL,
               CM_RESOURCE_CONNECTION_TYPE_SERIAL_I2C, id)
GpioDescriptor(id) ==
    Descriptor(CmResourceTypeConnection, CM_RESOURCE_CONNECTION_CLASS_GPIO,
               CM_RESOURCE_CONNECTION_TYPE_GPIO_IO, id)
\* entries the driver has no use for: a serial connection that is not I2C, a
\* GPIO connection that is not I/O, and an interrupt (no connection at all)
\* whose union bytes read as a Serial/I2C connection
SpiDescriptor ==
    Descriptor(CmResourceTypeConnection, CM_RESOURCE_CONNECTION_CLASS_SERIAL,
               CM_RESOURCE_CONNECTION_TYPE_GPIO_IO, 1)
GpioIntDescriptor ==
    Descriptor(CmResourceTypeConnection, CM_RESOURCE_CONNECTION_CLASS_GPIO,
               CM_RESOURCE_CONNECTION_TYPE_SERIAL_I2C, 1)
InterruptDescriptor ==
    Descriptor(CmResourceTypeInterrupt, CM_RESOURCE_CONNECTION_CLASS_SERIAL,
               CM_RESOURCE_CONNECTION_TYPE_SERIAL_I2C, 1)

Descriptors ==
    {I2cDescriptor(id) : id \in 1..MaxId} \cup
    {GpioDescriptor(id) : id \in 1..MaxId} \cup
    {SpiDescriptor, GpioIntDescriptor, InterruptDescriptor}

\* the translated resource lists the PnP manager may hand over
ResourceLists == UNION {[1..n -> Descriptors] : n \in 0..MaxResources}

(* ---------------------------------------------------------------------- *)
(* Collaborators: Bus Channel, Touch Engine                                *)
(* ---------------------------------------------------------------------- *)
SpbTargetInitialize(ctx, st) ==
    IF NT_SUCCESS(st) THEN [ctx EXCEPT !.SpbOpen = TRUE] ELSE ctx

SpbTargetDeinitialize(ctx) == [ctx EXCEPT !.SpbOpen = FALSE]

\* TchAllocateContext(&devContext->TouchContext, FxDevice)
TchAllocateContext(ctx, st) ==
    IF NT_SUCCESS(st) THEN [ctx EXCEPT !.TouchContext = "valid"] ELSE ctx

\* TchFreeContext(devContext->TouchContext): the pointer is passed by value,
\* the field of the device context keeps pointing at the freed block
TchFreeContext(ctx) ==
    [ctx EXCEPT !.TouchContext = IF @ = "valid" THEN "freed" ELSE @]

\* one entry of a callback's call log: the operation, the touch context it
\* was handed and the status it returned
Call(op, ctx, st) == [op |-> op, arg |-> ctx.TouchContext, status |-> st]

(* ---------------------------------------------------------------------- *)
(* OnPrepareHardware                                                       *)
(* ---------------------------------------------------------------------- *)
IsSerialI2c(res) ==
    /\ res.Type = CmResourceTypeConnection
    /\ res.Class = CM_RESOURCE_CONNECTION_CLASS_SERIAL
    /\ res.ConnType = CM_RESOURCE_CONNECTION_TYPE_SERIAL_I2C

IsGpioIo(res) ==
    /\ res.Type = CmResourceTypeConnection
    /\ res.Class = CM_RESOURCE_CONNECTION_CLASS_GPIO
    /\ res.ConnType = CM_RESOURCE_CONNECTION_TYPE_GPIO_IO

\* mutant: a GPIO descriptor is only taken once the bus descriptor was found
ResolveOneGpioAfterBus(acc, res) ==
    LET a1 == IF IsSerialI2c(res)
              THEN [ctx |-> [acc.ctx EXCEPT !.I2cResHubId =
                                [LowPart |-> res.IdLowPart,
                                 HighPart |-> res.IdHighPart]],
                    status |-> STATUS_SUCCESS]
              ELSE acc
    IN  IF IsGpioIo(res) /\ NT_SUCCESS(a1.status)
        THEN [a1 EXCEPT !.ctx.ResetGpioId = [LowPart |-> res.IdLowPart,
                                             HighPart |-> res.IdHighPart],
                        !.ctx.HasResetGpio = TRUE]
        ELSE a1

\* mutant: the first Serial/I2C descriptor of the list wins
ResolveOneFirstWins(acc, res) ==
    LET a1 == IF IsSerialI2c(res) /\ ~NT_SUCCESS(acc.status)
              THEN [ctx |-> [acc.ctx EXCEPT !.I2cResHubId =
                                [LowPart |-> res.IdLowPart,
                                 HighPart |-> res.IdHighPart]],
                    status |-> STATUS_SUCCESS]
              ELSE acc
    IN  IF IsGpioIo(res)
        THEN [a1 EXCEPT !.ctx.ResetGpioId = [LowPart |-> res.IdLowPart,
                                             HighPart |-> res.IdHighPart],
                        !.ctx.HasResetGpio = TRUE]
        ELSE a1

\* the body of the resource loop for one descriptor
ResolveOne(acc, res) ==
    LET a1 == IF IsSerialI2c(res)
              THEN [ctx |-> [acc.ctx EXCEPT !.I2cResHubId =
                                [LowPart |-> res.IdLowPart,
                                 HighPart |-> res.IdHighPart]],
                    status |-> STATUS_SUCCESS]
              ELSE acc
    IN  IF IsGpioIo(res)
        THEN [a1 EXCEPT !.ctx.ResetGpioId = [LowPart |-> res.IdLowPart,
                                             HighPart |-> res.IdHighPart],
                        !.ctx.HasResetGpio = TRUE]
        ELSE a1

RECURSIVE ResolveFrom(_, _, _)
\* for (i = k-1; i < resourceCount; i++) ...
ResolveFrom(acc, resources, k) ==
    IF k > Len(resources) THEN acc
    ELSE ResolveFrom(ResolveOne(acc, resources[k]), resources, k + 1)

\* mutant: status starts out as success
ResolveFromSuccess(ctx, resources) ==
    ResolveFrom([ctx |-> ctx, status |-> STATUS_SUCCESS], resources, 1)

\* the resolver: the resource loop of OnPrepareHardware
Resolve(ctx, resources) ==
    ResolveFrom([ctx |-> ctx, status |-> STATUS_INSUFFICIENT_RESOURCES],
                resources, 1)

\* mutant: a failing step releases what the earlier steps acquired
PrepareHardwareUnwinding(ctx, resources, spbSt, allocSt, startSt) ==
    LET r == Resolve(ctx, resources)
        c1 == SpbTargetInitialize(r.ctx, spbSt)
        c2 == TchAllocateContext(c1, allocSt)
        spb == <<Call("SpbTargetInitialize", r.ctx, spbSt)>>
        alloc == <<Call("TchAllocateContext", c1, allocSt)>>
        start == <<Call("TchStartDevice", c2, startSt)>>
    IN  IF ~NT_SUCCESS(r.status)
        THEN [ctx |-> r.ctx, status |-> r.status, calls |-> <<>>]
        ELSE IF ~NT_SUCCESS(spbSt)
        THEN [ctx |-> c1, status |-> spbSt, calls |-> spb]
        ELSE IF ~NT_SUCCESS(allocSt)
        THEN [ctx |-> SpbTargetDeinitialize(c2), status |-> allocSt,
              calls |-> spb \o alloc]
        ELSE IF ~NT_SUCCESS(startSt)
        THEN [ctx |-> SpbTargetDeinitialize(TchFreeContext(c2)),
              status |-> startSt, calls |-> spb \o alloc \o start]
        ELSE [ctx |-> c2, status |-> startSt,
              calls |-> spb \o alloc \o start]

\* mutant: the reset sequence of the reset GPIO is run before the bus is opened
PrepareHardwareWithReset(ctx, resources, spbSt, allocSt, startSt) ==
    LET r == Resolve(ctx, resources)
        c1 == SpbTargetInitialize(r.ctx, spbSt)
        c2 == TchAllocateContext(c1, allocSt)
        reset == IF r.ctx.HasResetGpio
                 THEN <<[op |-> "OpenIOTarget", arg |-> "ResetGpio",
                         status |-> STATUS_SUCCESS],
                        [op |-> "SetGPIO", arg |-> "low",
                         status |-> STATUS_SUCCESS],
                        [op |-> "SetGPIO", arg |-> "high",
                         status |-> STATUS_SUCCESS]>>
                 ELSE <<>>
        spb == reset \o <<Call("SpbTargetInitialize", r.ctx, spbSt)>>
        alloc == <<Call("TchAllocateContext", c1, allocSt)>>
        start == <<Call("TchStartDevice", c2, startSt)>>
    IN  IF ~NT_SUCCESS(r.status)
        THEN [ctx |-> r.ctx, status |-> r.status, calls |-> <<>>]
        ELSE IF ~NT_SUCCESS(spbSt)
        THEN [ctx |-> c1, status |-> spbSt, calls |-> spb]
        ELSE IF ~NT_SUCCESS(allocSt)
        THEN [ctx |-> c2, status |-> allocSt, calls |-> spb \o alloc]
        ELSE [ctx |-> c2, status |-> startSt,
              calls |-> spb \o alloc \o start]

\* OnPrepareHardware on the device context ctx: the context it leaves, the
\* status it returns and the calls it made, given the outcome of each
\* collaborator it may reach
PrepareHardware(ctx, resources, spbSt, allocSt, startSt) ==
    LET r == Resolve(ctx, resources)
        c1 == SpbTargetInitialize(r.ctx, spbSt)
        c2 == TchAllocateContext(c1, allocSt)
        spb == <<Call("SpbTargetInitialize", r.ctx, spbSt)>>
        alloc == <<Call("TchAllocateContext", c1, allocSt)>>
        start == <<Call("TchStartDevice", c2, startSt)>>
    IN  IF ~NT_SUCCESS(r.status)
        THEN [ctx |-> r.ctx, status |-> r.status, calls |-> <<>>]
        ELSE IF ~NT_SUCCESS(spbSt)
        THEN [ctx |-> c1, status |-> spbSt, calls |-> spb]
        ELSE IF ~NT_SUCCESS(allocSt)
        THEN [ctx |-> c2, status |-> allocSt, calls |-> spb \o alloc]
        ELSE [ctx |-> c2, status |-> startSt,
              calls |-> spb \o alloc \o start]

\* the number (counted up to two) of successful OnPrepareHardware calls, each
\* followed at once by OnReleaseHardware, that lead in a row to the callback
\* that has just returned
Cycles(name) ==
    IF name = "OnReleaseHardware"
    THEN IF cb.name = "OnPrepareHardware" /\ NT_SUCCESS(cb.status)
         THEN (IF cb.cycles < 2 THEN cb.cycles + 1 ELSE cb.cycles)
         ELSE 0
    ELSE IF name = "OnPrepareHardware" THEN cb.cycles ELSE 0

\* the record of a callback that has just returned
Callback(name, result, resources) ==
    [name |-> name, status |-> result.status, calls |-> result.calls,
     resources |-> resources, before |-> devContext,
     prevName |-> cb.name, prevCalls |-> cb.calls, cycles |-> Cycles(name)]

OnPrepareHardware ==
    /\ hostState = "Unbound"
    /\ \E resources \in ResourceLists,
          spbSt \in {STATUS_SUCCESS, ResourceOpenFailed},
          allocSt \in {STATUS_SUCCESS, OutOfResources},
          startSt \in {STATUS_SUCCESS, HardwareFault} :
          LET result == PrepareHardware(devContext, resources,
                                        spbSt, allocSt, startSt)
          IN  /\ devContext' = result.ctx
              /\ cb' = Callback("OnPrepareHardware", result, resources)
              /\ hostState' = IF NT_SUCCESS(result.status)
                              THEN "Prepared" ELSE "PrepareFailed"
    /\ last' = "OnPrepareHardware"
    /\ UNCHANGED <<isrVars, d0ExitStatus>>

(* ---------------------------------------------------------------------- *)
(* OnReleaseHardware                                                       *)
(* ---------------------------------------------------------------------- *)
\* mutant: release clears the reset GPIO fields of the device context
ReleaseHardwareClearsGpio(ctx, stopSt) ==
    LET freeSt == STATUS_SUCCESS
        c1 == TchFreeContext(ctx)
        c2 == SpbTargetDeinitialize(c1)
    IN  [ctx |-> [c2 EXCEPT !.HasResetGpio = FALSE, !.ResetGpioId = NullId],
         status |-> freeSt,
         calls |-> <<Call("TchStopDevice", ctx, stopSt),
                     Call("TchFreeContext", ctx, freeSt),
                     Call("SpbTargetDeinitialize", c1, STATUS_SUCCESS)>>]

\* mutant: release does not free the touch context
ReleaseHardwareKeepsContext(ctx, stopSt) ==
    LET freeSt == STATUS_SUCCESS
        c2 == SpbTargetDeinitialize(ctx)
    IN  [ctx |-> c2,
         status |-> freeSt,
         calls |-> <<Call("TchStopDevice", ctx, stopSt),
                     Call("SpbTargetDeinitialize", ctx, STATUS_SUCCESS)>>]

\* mutant: release leaves the bus channel open
ReleaseHardwareKeepsBus(ctx, stopSt) ==
    LET freeSt == STATUS_SUCCESS
        c1 == TchFreeContext(ctx)
    IN  [ctx |-> c1,
         status |-> freeSt,
         calls |-> <<Call("TchStopDevice", ctx, stopSt),
                     Call("TchFreeContext", ctx, freeSt)>>]

\* OnReleaseHardware on the device context ctx, given the outcome of
\* TchStopDevice; TchFreeContext does not fail
ReleaseHardware(ctx, stopSt) ==
    LET freeSt == STATUS_SUCCESS
        c1 == TchFreeContext(ctx)
        c2 == SpbTargetDeinitialize(c1)
    IN  [ctx |-> c2,
         status |-> freeSt,
         calls |-> <<Call("TchStopDevice", ctx, stopSt),
                     Call("TchFreeContext", ctx, freeSt),
                     Call("SpbTargetDeinitialize", c1, STATUS_SUCCESS)>>]

OnReleaseHardware ==
    /\ hostState \in {"Prepared", "PrepareFailed", "D3"}
    /\ \E stopSt \in {STATUS_SUCCESS, HardwareFault} :
          LET result == ReleaseHardware(devContext, stopSt)
          IN  /\ devContext' = result.ctx
              /\ cb' = Callback("OnReleaseHardware", result, <<>>)
    /\ hostState' = "Unbound"
    /\ last' = "OnReleaseHardware"
    /\ UNCHANGED <<isrVars, d0ExitStatus>>

(* ---------------------------------------------------------------------- *)
(* OnD0Entry, OnD0Exit                                                     *)
(* ---------------------------------------------------------------------- *)
\* mutant: a failed wake returns at once
D0EntryReturnEarly(ctx, wakeSt) ==
    IF ~NT_SUCCESS(wakeSt)
    THEN [ctx |-> ctx, status |-> wakeSt,
          calls |-> <<Call("TchWakeDevice", ctx, wakeSt)>>]
    ELSE [ctx |-> [ctx EXCEPT !.ServiceInterruptsAfterD0Entry = TRUE],
          status |-> wakeSt,
          calls |-> <<Call("TchWakeDevice", ctx, wakeSt),
                      Call("TchCompleteIdleIrp", ctx, STATUS_SUCCESS)>>]

\* OnD0Entry on the device context ctx, given the outcome of TchWakeDevice
D0Entry(ctx, wakeSt) ==
    [ctx |-> [ctx EXCEPT !.ServiceInterruptsAfterD0Entry = TRUE],
     status |-> wakeSt,
     calls |-> <<Call("TchWakeDevice", ctx, wakeSt),
                 Call("TchCompleteIdleIrp", ctx, STATUS_SUCCESS)>>]

OnD0Entry ==
    /\ hostState \in {"Prepared", "D3"}
    /\ \E wakeSt \in {STATUS_SUCCESS, HardwareFault} :
          LET result == D0Entry(devContext, wakeSt)
          IN  /\ devContext' = result.ctx
              /\ cb' = Callback("OnD0Entry", result, <<>>)
              /\ hostState' = IF NT_SUCCESS(result.status)
                              THEN "D0" ELSE hostState
    /\ last' = "OnD0Entry"
    /\ UNCHANGED <<isrVars, d0ExitStatus>>

\* mutant: the device is put to standby twice
D0ExitTwice(ctx, standbySt) ==
    [ctx |-> ctx, status |-> standbySt,
     calls |-> <<Call("TchStandbyDevice", ctx, standbySt),
                 Call("TchStandbyDevice", ctx, standbySt)>>]

\* OnD0Exit on the device context ctx, given the outcome of TchStandbyDevice
D0Exit(ctx, standbySt) ==
    [ctx |-> ctx, status |-> standbySt,
     calls |-> <<Call("TchStandbyDevice", ctx, standbySt)>>]

OnD0Exit ==
    /\ hostState = "D0"
    /\ isrPc = "idle"
    /\ d0ExitStatus = "none"
    /\ \E standbySt \in {STATUS_SUCCESS, HardwareFault} :
          LET result == D0Exit(devContext, standbySt)
          IN  /\ devContext' = result.ctx
              /\ cb' = Callback("OnD0Exit", result, <<>>)
    /\ hostState' = "D3"
    /\ last' = "OnD0Exit"
    /\ UNCHANGED <<isrVars, d0ExitStatus>>

\* OnD0Exit up to the return of TchStandbyDevice, with the interrupt still
\* connected: device.c takes no lock and tests nothing against the ISR
OnD0ExitStandby ==
    /\ hostState = "D0"
    /\ d0ExitStatus = "none"
    /\ \E standbySt \in {STATUS_SUCCESS, HardwareFault} :
          d0ExitStatus' = D0Exit(devContext, standbySt).status
    /\ last' = "OnD0ExitStandby"
    /\ UNCHANGED <<isrVars, devContext, hostState, cb>>

\* OnD0Exit returns the status of TchStandbyDevice
OnD0ExitReturn ==
    /\ d0ExitStatus # "none"
    /\ LET result == D0Exit(devContext, d0ExitStatus)
       IN  /\ devContext' = result.ctx
           /\ cb' = Callback("OnD0Exit", result, <<>>)
    /\ hostState' = "D3"
    /\ d0ExitStatus' = "none"
    /\ last' = "OnD0Exit"
    /\ UNCHANGED isrVars

(* ---------------------------------------------------------------------- *)
(* Initial states                                                          *)
(* ---------------------------------------------------------------------- *)
InitIsrSide ==
    /\ PingPongQueue = <<>>
    /\ nextRequestId = 1
    /\ completed = <<>>
    /\ cancelled = {}
    /\ isrPc = "idle"
    /\ hidReportsFromDriver = <<>>
    /\ hidReportsCount = 0
    /\ i = 0
    /\ isrReturn = "none"
    /\ pass = NoPass

\* the device after its context was created (zeroed) and before any callback
Init ==
    /\ InitIsrSide
    /\ devContext = ZeroedContext
    /\ hostState = "Unbound"
    /\ cb = NoCallback
    /\ d0ExitStatus = "none"
    /\ last = "none"

\* the device in D0 after OnPrepareHardware and OnD0Entry succeeded on a
\* resource list holding one Serial/I2C descriptor
InitRunning ==
    /\ InitIsrSide
    /\ devContext = RunningContext
    /\ hostState = "D0"
    /\ cb = NoCallback
    /\ d0ExitStatus = "none"
    /\ last = "none"

\* the interrupt path against the host's request queue, device in D0
NextIsr ==
    \/ HostSubmitRead
    \/ HostCancelRead
    \/ OnInterruptIsr
    \/ SendHidReports
    \/ OnInterruptIsrReturn

SpecIsr == InitRunning /\ [][NextIsr]_vars

\* the interrupt path against OnD0Exit and OnD0Entry, the ISR free to run
\* while OnD0Exit is in flight; the host parks no request
NextPower ==
    \/ OnInterruptIsr
    \/ SendHidReports
    \/ OnInterruptIsrReturn
    \/ OnD0ExitStandby
    \/ OnD0ExitReturn
    \/ OnD0Entry

SpecPower == InitRunning /\ [][NextPower]_vars

\* the PnP / power callbacks as the host framework serializes them
NextLife ==
    \/ OnPrepareHardware
    \/ OnD0Entry
    \/ OnD0Exit
    \/ OnReleaseHardware

SpecLife == Init /\ [][NextLife]_vars

\* the whole driver
Next ==
    \/ NextLife
    \/ NextIsr
    \/ NextPower

Spec == Init /\ [][Next]_vars

(* ---------------------------------------------------------------------- *)
(* Observations of a service pass                                          *)
(* ---------------------------------------------------------------------- *)
\* a pass whose TchServiceInterrupts succeeded has just returned
PassReturned == last = "OnInterruptIsrReturn"

\* the completions emitted since the current / last pass began
PassCompletions ==
    SubSeq(completed, pass.completedBefore + 1, Len(completed))

\* the request can take a report: it has an output buffer of the full size
Adequate(request) == request.hasBuffer /\ request.length >= ReportSize

\* number of completions of request id
TimesCompleted(id) ==
    Cardinality({k \in 1..Len(completed) : completed[k].request.id = id})

QueuedIds == {PingPongQueue[k].id : k \in 1..Len(PingPongQueue)}

\* the first ReportSize bytes of a buffer hold exactly the bytes of report
Holds(buffer, report) ==
    /\ Len(buffer) >= ReportSize
    /\ \A k \in 1..Len(buffer) :
          buffer[k] = IF k <= ReportSize THEN report[k] ELSE Untouched

\* nothing was written to the buffer
Unwritten(buffer) == \A k \in 1..Len(buffer) : buffer[k] = Untouched

(* ---------------------------------------------------------------------- *)
(* C1                                                                      *)
(* ---------------------------------------------------------------------- *)
\* C1 as stated: after a pass with n reports and p pending requests (the host
\* leaving the queue alone during the pass), exactly min(n, p) requests are
\* completed with success and n - min(n, p) reports are dropped.
C1_AllMatchedSucceed ==
    (PassReturned /\ ~pass.disturbed) =>
        LET n == Len(pass.reports)
            p == Len(pass.queueBefore)
            done == PassCompletions
        IN  /\ Cardinality({k \in 1..Len(done) :
                               NT_SUCCESS(done[k].status)}) = Min(n, p)
            /\ Len(pass.dropped) = n - Min(n, p)

\* C1 (amended): after a pass with n reports and p pending requests (the host
\* leaving the queue alone during the pass), exactly the first min(n, p)
\* pending requests are dequeued and completed, each exactly once, with success
\* exactly when the request has an output buffer of at least
\* sizeof(HID_INPUT_REPORT) bytes and with a failure status otherwise; the
\* other n - min(n, p) reports are dropped and the other p - min(n, p)
\* requests stay pending in their order.
C1_Conservation ==
    (PassReturned /\ ~pass.disturbed) =>
        LET n == Len(pass.reports)
            p == Len(pass.queueBefore)
            m == Min(n, p)
            done == PassCompletions
        IN  /\ Len(done) = m
            /\ \A k \in 1..m :
                  /\ done[k].request = pass.queueBefore[k]
                  /\ TimesCompleted(done[k].request.id) = 1
                  /\ NT_SUCCESS(done[k].status) <=> Adequate(done[k].request)
            /\ Len(pass.dropped) = n - m
            /\ PingPongQueue = SubSeq(pass.queueBefore, m + 1, p)

\* C1 witness: a pass of 2 reports on 1 pending request whose buffer is too
\* short: the request is completed with a failure status, one report dropped
C1_Witness ==
    /\ PassReturned /\ ~pass.disturbed
    /\ Len(pass.reports) = 2 /\ Len(pass.queueBefore) = 1
    /\ Len(pass.dropped) = 1
    /\ Len(PassCompletions) = 1
    /\ PassCompletions[1].status = STATUS_BUFFER_TOO_SMALL

(* ---------------------------------------------------------------------- *)
(* C2                                                                      *)
(* ---------------------------------------------------------------------- *)
\* C2: within a pass the requests are taken oldest first and paired with
\* strictly increasing report indexes: a request dequeued earlier carries an
\* earlier report, every successful completion holds exactly the report of
\* its own index, and no report index is paired twice.
C2_ProducerOrder ==
    (pass.status = STATUS_SUCCESS) =>
        LET done == PassCompletions
        IN  /\ Len(done) = Len(pass.matches)
            /\ \A a, b \in 1..Len(pass.matches) :
                  a < b => /\ pass.matches[a].id < pass.matches[b].id
                           /\ pass.matches[a].index < pass.matches[b].index
            /\ \A k \in 1..Len(pass.matches) :
                  /\ done[k].request.id = pass.matches[k].id
                  /\ pass.matches[k].index < Len(pass.reports)
                  /\ NT_SUCCESS(done[k].status) =>
                        Holds(done[k].buffer,
                              pass.reports[pass.matches[k].index + 1])

\* C2 witness: two requests completed with success in one pass, carrying two
\* different reports
C2_Witness ==
    /\ PassReturned
    /\ Len(PassCompletions) = 2
    /\ NT_SUCCESS(PassCompletions[1].status)
    /\ NT_SUCCESS(PassCompletions[2].status)
    /\ PassCompletions[1].buffer # PassCompletions[2].buffer
    /\ Len(PassCompletions[1].buffer) = Len(PassCompletions[2].buffer)

(* ---------------------------------------------------------------------- *)
(* C3                                                                      *)
(* ---------------------------------------------------------------------- *)
\* C3: at every moment, every request the dispatcher has dequeued (submitted,
\* no longer pending, not cancelled) has exactly one completion and no other
\* request has any; a successful completion holds one full report and
\* information = sizeof(HID_INPUT_REPORT), any other completion carries a
\* failure status.
C3_CompletedExactlyOnce ==
    /\ \A id \in 1..(nextRequestId - 1) :
          TimesCompleted(id) =
              IF id \in QueuedIds \cup cancelled THEN 0 ELSE 1
    /\ \A k \in 1..Len(completed) :
          IF NT_SUCCESS(completed[k].status)
          THEN /\ completed[k].information = ReportSize
               /\ \E r \in HID_INPUT_REPORT : Holds(completed[k].buffer, r)
          ELSE completed[k].status \in {NoOutputBuffer, STATUS_BUFFER_TOO_SMALL}

\* C3 witness: over two passes, one request completed with success and
\* another with a failure status
C3_Witness ==
    /\ Len(completed) = 2
    /\ pass.completedBefore = 1
    /\ PassReturned
    /\ \E a, b \in 1..2 : /\ NT_SUCCESS(completed[a].status)
                          /\ ~NT_SUCCESS(completed[b].status)

C5_FailedServiceNoDispatch ==
    (pass.status \in {HardwareFault, TransientBusError}) =>
        /\ isrPc = "idle"
        /\ isrReturn = "TRUE"
        /\ pass.matches = <<>> /\ pass.dropped = <<>>
        /\ (last = "OnInterruptIsr") =>
              /\ PingPongQueue = pass.queueBefore
              /\ Len(completed) = pass.completedBefore

\* C5 witness: TchServiceInterrupts fails with requests pending and with
\* reports left in its output array
C5_Witness ==
    /\ last = "OnInterruptIsr"
    /\ pass.status = TransientBusError
    /\ Len(pass.reports) > 0
    /\ PingPongQueue # <<>>

(* ---------------------------------------------------------------------- *)
(* Observations of a callback                                              *)
(* ---------------------------------------------------------------------- *)
PrepareReturned == last = "OnPrepareHardware"

\* the resource list holds a Serial/I2C (a GPIO I/O) connection descriptor
ContainsI2c(resources) ==
    \E k \in 1..Len(resources), id \in 1..MaxId :
        resources[k] = I2cDescriptor(id)
ContainsGpio(resources) ==
    \E k \in 1..Len(resources), id \in 1..MaxId :
        resources[k] = GpioDescriptor(id)

\* the resolver of the last OnPrepareHardware succeeded: the callback went on
\* to open the bus channel
ResolverSucceeded == cb.calls # <<>>

\* the status of the first call that failed, success if none did
RECURSIVE FirstFailure(_)
FirstFailure(calls) ==
    IF calls = <<>> THEN STATUS_SUCCESS
    ELSE IF ~NT_SUCCESS(Head(calls).status) THEN Head(calls).status
    ELSE FirstFailure(Tail(calls))

Ops(calls) == [k \in 1..Len(calls) |-> calls[k].op]

IsLifecycleCall(call) ==
    call.op \in {"TchAllocateContext", "TchStartDevice", "TchWakeDevice",
                 "TchStandbyDevice", "TchStopDevice", "TchFreeContext"}

C7_ReleaseFirstFailure ==
    (last = "OnReleaseHardware") =>
        /\ Ops(cb.calls) = <<"TchStopDevice", "TchFreeContext",
                             "SpbTargetDeinitialize">>
        /\ cb.status = FirstFailure(cb.calls)

(* ---------------------------------------------------------------------- *)
(* C8                                                                      *)
(* ---------------------------------------------------------------------- *)
\* C8 as stated: the resolver succeeds exactly when the list holds a
\* Serial/I2C descriptor, and then HasResetGpio is true exactly when the list
\* holds a GPIO I/O descriptor.
C8_GpioIffListed ==
    PrepareReturned =>
        /\ ResolverSucceeded <=> ContainsI2c(cb.resources)
        /\ ResolverSucceeded =>
              (devContext.HasResetGpio <=> ContainsGpio(cb.resources))

\* C8 (amended): the resolver succeeds exactly when the list holds a
\* Serial/I2C descriptor, whatever the order of the entries and the unrelated
\* entries, and then HasResetGpio is true exactly when the list holds a GPIO
\* I/O descriptor or HasResetGpio was already true before the call.
C8_ResourceParsing ==
    PrepareReturned =>
        /\ ResolverSucceeded <=> ContainsI2c(cb.resources)
        /\ ~ResolverSucceeded => cb.status = STATUS_INSUFFICIENT_RESOURCES
        /\ ResolverSucceeded =>
              (devContext.HasResetGpio <=>
                  (ContainsGpio(cb.resources) \/ cb.before.HasResetGpio))

\* C8 witness: the list [GPIO, I2C] on a zeroed context yields bus and GPIO
C8_Witness ==
    /\ PrepareReturned
    /\ cb.before = ZeroedContext
    /\ cb.resources = <<GpioDescriptor(1), I2cDescriptor(2)>>
    /\ ResolverSucceeded
    /\ devContext.HasResetGpio

(* ---------------------------------------------------------------------- *)
(* C9                                                                      *)
(* ---------------------------------------------------------------------- *)
\* C9 as stated: on a list without Serial/I2C descriptor OnPrepareHardware
\* fails and leaves the device context exactly as it was.
C9_NoStateRetained ==
    (PrepareReturned /\ ~ContainsI2c(cb.resources)) =>
        /\ cb.status = STATUS_INSUFFICIENT_RESOURCES
        /\ cb.calls = <<>>
        /\ devContext = cb.before

\* the last GPIO I/O descriptor of a list that holds one
LastGpio(resources) ==
    resources[CHOOSE k \in 1..Len(resources) :
                 /\ \E id \in 1..MaxId : resources[k] = GpioDescriptor(id)
                 /\ \A j \in (k + 1)..Len(resources) :
                       \A id \in 1..MaxId : resources[j] # GpioDescriptor(id)]

\* C9 (amended): on a list without Serial/I2C descriptor OnPrepareHardware
\* fails with MissingRequiredResource, opens no bus channel, allocates no
\* touch context and leaves the bus resource ID and every other field of the
\* device context as they were, except that a GPIO I/O descriptor of the list
\* is still recorded: ResetGpioId is its ID and HasResetGpio is true.
C9_MissingBusKeepsGpio ==
    (PrepareReturned /\ ~ContainsI2c(cb.resources)) =>
        /\ cb.status = STATUS_INSUFFICIENT_RESOURCES
        /\ cb.calls = <<>>
        /\ devContext =
              IF ContainsGpio(cb.resources)
              THEN [cb.before EXCEPT
                       !.HasResetGpio = TRUE,
                       !.ResetGpioId =
                           [LowPart |-> LastGpio(cb.resources).IdLowPart,
                            HighPart |-> LastGpio(cb.resources).IdHighPart]]
              ELSE cb.before

\* C9 witness: a list holding only a GPIO I/O descriptor, on a zeroed context
C9_Witness ==
    /\ PrepareReturned
    /\ cb.before = ZeroedContext
    /\ cb.resources = <<GpioDescriptor(2)>>
    /\ cb.status = STATUS_INSUFFICIENT_RESOURCES
    /\ devContext.HasResetGpio

(* ---------------------------------------------------------------------- *)
(* C10                                                                     *)
(* ---------------------------------------------------------------------- *)
\* C10: when OnD0Entry is the callback that follows OnD0Exit, the Touch Engine
\* lifecycle calls of the two callbacks are exactly one TchStandbyDevice and
\* then one TchWakeDevice, and ServiceInterruptsAfterD0Entry is true whenever
\* OnD0Entry has returned.
C10_PowerRoundTrip ==
    (last = "OnD0Entry") =>
        /\ devContext.ServiceInterruptsAfterD0Entry
        /\ Ops(SelectSeq(cb.calls, IsLifecycleCall)) = <<"TchWakeDevice">>
        /\ (cb.prevName = "OnD0Exit") =>
              Ops(SelectSeq(cb.prevCalls \o cb.calls, IsLifecycleCall)) =
                  <<"TchStandbyDevice", "TchWakeDevice">>

\* C10 witness: OnD0Entry succeeds right after OnD0Exit
C10_Witness ==
    /\ last = "OnD0Entry"
    /\ cb.prevName = "OnD0Exit"
    /\ NT_SUCCESS(cb.status)
    /\ cb.before.ServiceInterruptsAfterD0Entry

(* ---------------------------------------------------------------------- *)
(* C11                                                                     *)
(* ---------------------------------------------------------------------- *)
\* the number of calls of op in a call log
TimesCalled(calls, op) ==
    Cardinality({k \in 1..Len(calls) : calls[k].op = op})

\* C11: OnD0Entry returns the status TchWakeDevice returned, and whether that
\* is a success or a failure it has set ServiceInterruptsAfterD0Entry and has
\* called TchCompleteIdleIrp exactly once, after the wake.
C11_D0EntryAfterWake ==
    (last = "OnD0Entry") =>
        /\ cb.calls[1].op = "TchWakeDevice"
        /\ cb.status = cb.calls[1].status
        /\ devContext.ServiceInterruptsAfterD0Entry
        /\ TimesCalled(cb.calls, "TchCompleteIdleIrp") = 1
        /\ cb.calls[Len(cb.calls)].op = "TchCompleteIdleIrp"
        /\ devContext = [cb.before EXCEPT !.ServiceInterruptsAfterD0Entry = TRUE]

\* C11 witness: TchWakeDevice fails on a device whose flag was not set yet
C11_Witness ==
    /\ last = "OnD0Entry"
    /\ cb.status = HardwareFault
    /\ ~cb.before.ServiceInterruptsAfterD0Entry
    /\ devContext.ServiceInterruptsAfterD0Entry

(* ---------------------------------------------------------------------- *)
(* C12                                                                     *)
(* ---------------------------------------------------------------------- *)
\* the bus channel is open and no touch context is allocated
BusWithoutTouchContext(ctx) == ctx.SpbOpen /\ ctx.TouchContext # "valid"

\* OnPrepareHardware has returned the failure of TchAllocateContext
AllocateFailed ==
    /\ cb.name = "OnPrepareHardware"
    /\ Len(cb.calls) = 2
    /\ cb.calls[2].op = "TchAllocateContext"
    /\ ~NT_SUCCESS(cb.status)

StandbyCompleted == d0ExitStatus # "none" \/ hostState = "D3"

\* C13 as stated: with an ISR concurrent to an OnD0Exit in flight, no call of
\* TchServiceInterrupts begins after TchStandbyDevice has completed and before
\* the next TchWakeDevice.
C13_NoServiceAfterStandby ==
    (last = "OnInterruptIsr") => ~StandbyCompleted

(* ---------------------------------------------------------------------- *)
(* C14                                                                     *)
(* ---------------------------------------------------------------------- *)
\* the call at position k of a call log is TchStartDevice, the first call of
\* OnPrepareHardware that transfers on the bus
IsBusTraffic(calls, k) == calls[k].op = "TchStartDevice"

\* the reset line was driven high by a call before position k
DrivenHighBefore(calls, k) ==
    \E j \in 1..(k - 1) : calls[j].op = "SetGPIO" /\ calls[j].arg = "high"

\* C14 as stated: if HasResetGpio is true after the resolver, OnPrepareHardware
\* drives the reset line high before any bus traffic.
C14_ResetBeforeBusTraffic ==
    (PrepareReturned /\ ResolverSucceeded /\ devContext.HasResetGpio) =>
        \A k \in 1..Len(cb.calls) :
            IsBusTraffic(cb.calls, k) => DrivenHighBefore(cb.calls, k)

\* C14: OnPrepareHardware never opens or drives the reset line: whether or not
\* HasResetGpio is true after the resolver, the only calls it makes are
\* SpbTargetInitialize, TchAllocateContext and TchStartDevice, in that order.
C14_NoResetSequence ==
    (PrepareReturned /\ ResolverSucceeded) =>
        /\ \A k \in 1..Len(cb.calls) :
              cb.calls[k].op \notin {"OpenIOTarget", "SetGPIO"}
        /\ Ops(cb.calls) \in {<<"SpbTargetInitialize">>,
                              <<"SpbTargetInitialize", "TchAllocateContext">>,
                              <<"SpbTargetInitialize", "TchAllocateContext",
                                "TchStartDevice">>}

\* C14 witness: a resource list with a GPIO I/O descriptor, HasResetGpio true,
\* and OnPrepareHardware has gone as far as TchStartDevice
C14_Witness ==
    /\ PrepareReturned
    /\ ContainsGpio(cb.resources)
    /\ devContext.HasResetGpio
    /\ Len(cb.calls) = 3
    /\ IsBusTraffic(cb.calls, 3)
    /\ NT_SUCCESS(cb.status)

(* ---------------------------------------------------------------------- *)
(* C15                                                                     *)
(* ---------------------------------------------------------------------- *)
\* OnReleaseHardware has returned right after an OnPrepareHardware that
\* succeeded
ReleasedAfterPrepare == last = "OnReleaseHardware" /\ cb.cycles >= 1

\* C15: every handle a successful OnPrepareHardware acquired (the bus channel,
\* the touch context; it opens no GPIO handle) is released by the
\* OnReleaseHardware that follows it, so that after prepare, release, prepare,
\* release nothing is left open or allocated.
C15_NoLeakedHandles ==
    ReleasedAfterPrepare =>
        /\ cb.before.SpbOpen
        /\ cb.before.TouchContext = "valid"
        /\ ~devContext.SpbOpen
        /\ devContext.TouchContext # "valid"
        /\ TimesCalled(cb.calls, "TchFreeContext") = 1
        /\ TimesCalled(cb.calls, "SpbTargetDeinitialize") = 1
        /\ TimesCalled(cb.prevCalls, "OpenIOTarget") = 0

\* C15 witness: the second OnReleaseHardware of prepare, release, prepare,
\* release has returned
C15_Witness ==
    /\ last = "OnReleaseHardware"
    /\ cb.cycles = 2
    /\ cb.before.SpbOpen
    /\ cb.before.TouchContext = "valid"
    /\ ~devContext.SpbOpen

(* ---------------------------------------------------------------------- *)
(* C16                                                                     *)
(* ---------------------------------------------------------------------- *)
\* C16: a request completed with NoOutputBuffer or BufferTooSmall consumes the
\* report of its index without taking it, and neither ends the pass nor shifts
\* the pairing: with the host leaving the queue alone, the k-th pending
\* request is paired with the k-th report whatever the earlier completions
\* were, and the pass completes min(reports, pending) requests.
C16_FailureKeepsPairing ==
    (pass.status = STATUS_SUCCESS /\ ~pass.disturbed) =>
        LET done == PassCompletions
        IN  /\ \A k \in 1..Len(done) :
                  /\ done[k].request = pass.queueBefore[k]
                  /\ pass.matches[k].index = k - 1
                  /\ IF NT_SUCCESS(done[k].status)
                     THEN Holds(done[k].buffer, pass.reports[k])
                     ELSE /\ done[k].status \in {NoOutputBuffer,
                                                 STATUS_BUFFER_TOO_SMALL}
                          /\ Unwritten(done[k].buffer)
            /\ PassReturned =>
                  Len(done) = Min(Len(pass.reports), Len(pass.queueBefore))

\* C16 witness: requests [short, full] and reports [A, B]: request 1 is
\* completed with BufferTooSmall and request 2 with the payload B
C16_Witness ==
    /\ PassReturned
    /\ ~pass.disturbed
    /\ pass.reports = <<Frame(1), Frame(2)>>
    /\ Len(pass.queueBefore) = 2
    /\ pass.queueBefore[1].hasBuffer
    /\ pass.queueBefore[1].length < ReportSize
    /\ Adequate(pass.queueBefore[2])
    /\ Len(PassCompletions) = 2
    /\ PassCompletions[1].status = STATUS_BUFFER_TOO_SMALL
    /\ NT_SUCCESS(PassCompletions[2].status)
    /\ Holds(PassCompletions[2].buffer, Frame(2))
    /\ ~Holds(PassCompletions[2].buffer, Frame(1))

(* ---------------------------------------------------------------------- *)
(* C17                                                                     *)
(* ---------------------------------------------------------------------- *)
\* an ISR service pass has run to its return; a behaviour starts right after
\* OnD0Entry, so that the pass came after the last D0 entry
IsrPassReturned == isrPc = "idle" /\ isrReturn = "TRUE"

\* C17 as stated: ServiceInterruptsAfterD0Entry is read and cleared by the
\* first ISR service pass after OnD0Entry, so that it is false once a pass has
\* run and during every later pass until the next OnD0Entry.
C17_FlagClearedByFirstPass ==
    (hostState = "D0" /\ IsrPassReturned) =>
        ~devContext.ServiceInterruptsAfterD0Entry

(* ---------------------------------------------------------------------- *)
(* C18                                                                     *)
(* ---------------------------------------------------------------------- *)
\* the last Serial/I2C descriptor of a list that holds one
LastI2c(resources) ==
    resources[CHOOSE k \in 1..Len(resources) :
                 /\ \E id \in 1..MaxId : resources[k] = I2cDescriptor(id)
                 /\ \A j \in (k + 1)..Len(resources) :
                       \A id \in 1..MaxId : resources[j] # I2cDescriptor(id)]

\* the connection ID of a descriptor, as the resolver stores it
ConnectionId(res) == [LowPart |-> res.IdLowPart, HighPart |-> res.IdHighPart]

\* the number of Serial/I2C descriptors of a list
CountI2c(resources) ==
    Cardinality({k \in 1..Len(resources) : IsSerialI2c(resources[k])})

\* C18: the resolver takes the descriptors in list order and the last of a
\* class wins: after it the bus resource ID is the ID of the last Serial/I2C
\* descriptor and ResetGpioId the ID of the last GPIO I/O descriptor, and a
\* list with a Serial/I2C descriptor passes the resolver however many
\* descriptors of a class it holds.
C18_LastWins ==
    PrepareReturned =>
        /\ ContainsI2c(cb.resources) =>
              /\ ResolverSucceeded
              /\ devContext.I2cResHubId = ConnectionId(LastI2c(cb.resources))
        /\ ContainsGpio(cb.resources) =>
              devContext.ResetGpioId = ConnectionId(LastGpio(cb.resources))

\* C18 witness: two Serial/I2C descriptors with different IDs; the resolver
\* succeeded and the second ID was kept
C18_Witness ==
    /\ PrepareReturned
    /\ CountI2c(cb.resources) = 2
    /\ cb.resources[1] # cb.resources[2]
    /\ ResolverSucceeded
    /\ devContext.I2cResHubId = ConnectionId(cb.resources[2])
    /\ devContext.I2cResHubId # ConnectionId(cb.resources[1])

(* ---------------------------------------------------------------------- *)
(* C19                                                                     *)
(* ---------------------------------------------------------------------- *)
\* C19 as stated: in an OnReleaseHardware that follows a failed
\* OnPrepareHardware, TchStopDevice and TchFreeContext are only called on a
\* touch context that is allocated and not freed yet, and the bus channel is
\* only closed if it was opened.
C19_ReleaseOnlyWhatIsHeld ==
    (last = "OnReleaseHardware" /\ cb.prevName = "OnPrepareHardware"
                                /\ cb.cycles = 0) =>
        /\ \A k \in 1..Len(cb.calls) :
              cb.calls[k].op \in {"TchStopDevice", "TchFreeContext"} =>
                  cb.calls[k].arg = "valid"
        /\ TimesCalled(cb.calls, "SpbTargetDeinitialize") > 0 =>
              cb.before.SpbOpen

(* ---------------------------------------------------------------------- *)
(* C20                                                                     *)
(* ---------------------------------------------------------------------- *)
\* C20: HasResetGpio is written only by the resolver and only to true: the
\* callback that last returned changed it only if it is an OnPrepareHardware
\* whose list holds a GPIO I/O descriptor, and no callback (OnReleaseHardware,
\* a failed OnPrepareHardware, OnD0Entry, OnD0Exit) and no ISR step clears it.
C20_HasResetGpioOnlySet ==
    /\ cb.before.HasResetGpio => devContext.HasResetGpio
    /\ (devContext.HasResetGpio /\ ~cb.before.HasResetGpio) =>
          /\ cb.name = "OnPrepareHardware"
          /\ ContainsGpio(cb.resources)
    /\ (cb.name = "OnPrepareHardware" /\ ContainsGpio(cb.resources)) =>
          devContext.HasResetGpio

\* C20 witness: HasResetGpio was true before an OnPrepareHardware whose list
\* holds no GPIO I/O descriptor, it succeeded, and the flag is still true
C20_Witness ==
    /\ PrepareReturned
    /\ cb.prevName = "OnReleaseHardware"
    /\ cb.before.HasResetGpio
    /\ ~ContainsGpio(cb.resources)
    /\ NT_SUCCESS(cb.status)
    /\ devContext.HasResetGpio

====
